---- MODULE Spec2Model ----
(***************************************************************************)
(* Model of photos_time_warp/phototz.py: the session constructor           *)
(* (PhotoTimeZoneUpdater.__init__, get_photos_version), the per-asset      *)
(* update (update_photo, _update_photo under tenacity's @retry) and the    *)
(* owning application as an external writer of the same database rows,     *)
(* and the reader PhotoTimeZone.get_timezone with tz_to_str.               *)
(* Times are in milliseconds.                                              *)
(***************************************************************************)
EXTENDS Integers, Sequences, FiniteSets, TLC

VARIABLES
    library,        \* what is on disk: [path, readable, PLModelVersion]
    db,             \* ZADDITIONALASSETATTRIBUTES: Z_PK -> [ZASSET, Z_OPT, ZTIMEZONEOFFSET, ZTIMEZONENAME]
    session,        \* "new" | "ready" | "failed"   (result of __init__)
    photos_version, \* photos_version of __init__ (0 before it is computed)
    ASSET_TABLE,    \* self.ASSET_TABLE
    tz_offset,      \* self.tz_offset
    tz_name,        \* self.tz_name
    photos,         \* the batch: sequence of photo uuids handed to update_photo one by one
    idx,            \* index in photos of the current / next update_photo call
    driver,         \* batch driver: "running" | "aborted" (an exception reached it)
    pc,             \* position inside update_photo / _update_photo
    attempt_number, \* tenacity retry_state.attempt_number
    row,            \* row fetched by next(results) in the current attempt
    exc,            \* exception raised by the last failed attempt
    surfaced,       \* exception received by update_photo's except clause
    delays,         \* the sleeps tenacity made in the current call, in ms
    log,            \* messages passed to self.verbose
    external,       \* number of saves the owning application has made
    result,         \* what the last get_timezone call gave its caller
    writes,         \* history: UPDATE statements applied by the current call
    applied,        \* history: Z_PK -> UPDATE statements the updater applied to the row
    db0             \* history: the rows at the start of the session

vars == <<library, db, session, photos_version, ASSET_TABLE, tz_offset, tz_name, photos, idx,
          driver, pc, attempt_number, row, exc, surfaced, delays, log, external,
          result, writes, applied, db0>>

sessionVars == <<library, session, photos_version, ASSET_TABLE, tz_offset, tz_name>>
callVars == <<attempt_number, row, exc, surfaced, delays, writes>>
histVars == <<applied, db0>>

----------------------------------------------------------------------------
(* Bounds of the model *)

MaxBatch == 2       \* longest batch of update_photo calls
MaxCounter == 6     \* largest Z_OPT a row is taken to
MaxExternal == 1    \* saves of the owning application during the session
MaxOffset == 50400  \* largest stored timezone offset, in seconds (14 hours)

----------------------------------------------------------------------------
(* Constants of the program *)

stop_max_attempt_number == 10   \* stop_after_attempt(10)
wait_multiplier == 1000         \* wait_exponential(multiplier=1): 1 s
wait_min == 100                 \* wait_exponential(min=0.100)
wait_max == 5000                \* wait_exponential(max=5)

PHOTOS_5_MODEL_VERSION == <<13000, 13999>>
PHOTOS_6_MODEL_VERSION == <<14000, 14999>>
PHOTOS_7_MODEL_VERSION == <<15000, 15999>>

DB_TABLE_NAMES(version) ==
    IF version = 5 THEN "ZGENERICASSET" ELSE "ZASSET"

----------------------------------------------------------------------------
(* Data *)

\* no get_timezone call has returned since the last update_photo call
NoResult == [kind |-> "none", uuid |-> "none", tz |-> 0, tz_str |-> << >>, tzname |-> "none"]

NoRow == [Z_PK |-> 0, Z_OPT |-> 0, ZTIMEZONEOFFSET |-> 0, ZTIMEZONENAME |-> "none"]

Timezones ==
    { [offset |-> -28800, name |-> "America/Los_Angeles"],
      [offset |-> -18000, name |-> "America/Denver"] }

\* the asset table (ZASSET / ZGENERICASSET): Z_PK -> ZUUID
AssetTable == (1 :> "uuid-A") @@ (2 :> "uuid-B")

\* uuids a caller of get_timezone passes
ReadUUIDs == {"uuid-A", "uuid-B", "uuid-X"}

\* uuids the batch driver passes: one of an asset of the library and "uuid-X",
\* which is in no row of the asset table (the row of uuid-B is never a target)
UUIDs == {"uuid-A", "uuid-X"}

\* primary keys of ZADDITIONALASSETATTRIBUTES; row 1 belongs to asset 2 and row 2 to asset 1
AttrKeys == {1, 2}
ZAssetOf == (1 :> 2) @@ (2 :> 1)

InitCounters == {0, 4}

\* model versions of the sessions whose updates are explored
SessionVersions == {16000}

\* model versions the classification is explored on
ModelVersions ==
    (12998..13002) \cup (13998..14002) \cup (14998..15002) \cup (15998..16002)
        \cup {0, 13500, 14500, 15500, 99999}

Batches == UNION { [1..n -> UUIDs] : n \in 0..MaxBatch }

Max(a, b) == IF a >= b THEN a ELSE b
Min(a, b) == IF a <= b THEN a ELSE b

RECURSIVE Pow2(_)
Pow2(n) == IF n <= 0 THEN 1 ELSE 2 * Pow2(n - 1)

----------------------------------------------------------------------------
(* Pure functions *)

\* get_photos_version with the upper bound of each range excluded
get_photos_version_Exclusive(model_ver) ==
    IF PHOTOS_5_MODEL_VERSION[1] <= model_ver /\ model_ver < PHOTOS_5_MODEL_VERSION[2]
    THEN 5
    ELSE IF PHOTOS_6_MODEL_VERSION[1] <= model_ver /\ model_ver < PHOTOS_6_MODEL_VERSION[2]
    THEN 6
    ELSE IF PHOTOS_7_MODEL_VERSION[1] <= model_ver /\ model_ver < PHOTOS_7_MODEL_VERSION[2]
    THEN 7
    ELSE 7

\* get_photos_version: classify a model version
get_photos_version(model_ver) ==
    IF PHOTOS_5_MODEL_VERSION[1] <= model_ver /\ model_ver <= PHOTOS_5_MODEL_VERSION[2]
    THEN 5
    ELSE IF PHOTOS_6_MODEL_VERSION[1] <= model_ver /\ model_ver <= PHOTOS_6_MODEL_VERSION[2]
    THEN 6
    ELSE IF PHOTOS_7_MODEL_VERSION[1] <= model_ver /\ model_ver <= PHOTOS_7_MODEL_VERSION[2]
    THEN 7
    ELSE 7

DigitChars == <<"0", "1", "2", "3", "4", "5", "6", "7", "8", "9">>

\* str(n) of a natural number, as a sequence of characters
RECURSIVE Decimal(_)
Decimal(n) ==
    IF n < 10 THEN <<DigitChars[n + 1]>>
    ELSE Append(Decimal(n \div 10), DigitChars[(n % 10) + 1])

\* the format spec :02 of an f-string: zero-padded to at least 2 characters
Format02(n) ==
    LET digits == Decimal(n) IN
    IF Len(digits) < 2 THEN <<"0">> \o digits ELSE digits

\* abs()
abs(x) == IF x < 0 THEN -x ELSE x

\* tz_to_str with the sign test > 0
tz_to_str_ZeroNegative(tz_seconds) ==
    LET sign == IF tz_seconds > 0 THEN "+" ELSE "-"
        seconds == abs(tz_seconds)
        minutes == seconds \div 60
        hh == minutes \div 60
        mm == minutes % 60
    IN  <<sign>> \o Format02(hh) \o Format02(mm)

\* tz_to_str without abs(): the divisions are made on the signed value
tz_to_str_NoAbs(tz_seconds) ==
    LET sign == IF tz_seconds >= 0 THEN "+" ELSE "-"
        minutes == tz_seconds \div 60
        hh == minutes \div 60
        mm == minutes % 60
    IN  <<sign>> \o Format02(abs(hh)) \o Format02(mm)

\* tz_to_str: sign, divmod(tz_seconds, 60), divmod(mm, 60), f"{sign}{hh:02}{mm:02}"
tz_to_str(tz_seconds) ==
    LET sign == IF tz_seconds >= 0 THEN "+" ELSE "-"
        seconds == abs(tz_seconds)
        minutes == seconds \div 60
        hh == minutes \div 60
        mm == minutes % 60
    IN  <<sign>> \o Format02(hh) \o Format02(mm)

\* stop_after_attempt comparing with > : one attempt too many
stop_after_attempt_OneMore(n) == n > stop_max_attempt_number

\* stop_after_attempt stopping one attempt short
stop_after_attempt_OneLess(n) == n >= stop_max_attempt_number - 1

\* stop_after_attempt(10): stop once attempt_number >= max
stop_after_attempt(n) == n >= stop_max_attempt_number

\* wait_exponential without the max cap
wait_exponential_NoCap(n) ==
    Max(Max(0, wait_min), wait_multiplier * Pow2(n - 1))

\* wait_exponential(multiplier=1, min=0.100, max=5) after failed attempt n:
\* max(max(0, min), min(multiplier * 2 ** (n - 1), max))
wait_exponential(n) ==
    Max(Max(0, wait_min), Min(wait_multiplier * Pow2(n - 1), wait_max))

\* the SELECT joined ON ZADDITIONALASSETATTRIBUTES.Z_PK = asset.Z_PK
SelectRows_JoinOnPK(d, uuid) ==
    { [Z_PK |-> k, Z_OPT |-> d[k].Z_OPT,
       ZTIMEZONEOFFSET |-> d[k].ZTIMEZONEOFFSET,
       ZTIMEZONENAME |-> d[k].ZTIMEZONENAME] :
         k \in { j \in DOMAIN d :
                   \E a \in DOMAIN AssetTable :
                       j = a /\ AssetTable[a] = uuid } }

\* the SELECT of _update_photo: rows of ZADDITIONALASSETATTRIBUTES joined to the
\* asset table ON ZASSET = asset.Z_PK WHERE asset.ZUUID = uuid
SelectRows(d, uuid) ==
    { [Z_PK |-> k, Z_OPT |-> d[k].Z_OPT,
       ZTIMEZONEOFFSET |-> d[k].ZTIMEZONEOFFSET,
       ZTIMEZONENAME |-> d[k].ZTIMEZONENAME] :
         k \in { j \in DOMAIN d :
                   \E a \in DOMAIN AssetTable :
                       d[j].ZASSET = a /\ AssetTable[a] = uuid } }

\* the SELECT of get_timezone joined ON ZADDITIONALASSETATTRIBUTES.Z_PK = asset.Z_PK
SelectTimezone_JoinOnPK(d, uuid) ==
    { [ZTIMEZONEOFFSET |-> d[k].ZTIMEZONEOFFSET,
       ZTIMEZONENAME |-> d[k].ZTIMEZONENAME] :
         k \in { j \in DOMAIN d :
                   \E a \in DOMAIN AssetTable :
                       j = a /\ AssetTable[a] = uuid } }

\* the SELECT of get_timezone: ZTIMEZONEOFFSET, ZTIMEZONENAME of the rows joined
\* to the asset table ON ZASSET = asset.Z_PK WHERE asset.ZUUID = uuid
SelectTimezone(d, uuid) ==
    { [ZTIMEZONEOFFSET |-> d[k].ZTIMEZONEOFFSET,
       ZTIMEZONENAME |-> d[k].ZTIMEZONENAME] :
         k \in { j \in DOMAIN d :
                   \E a \in DOMAIN AssetTable :
                       d[j].ZASSET = a /\ AssetTable[a] = uuid } }

\* the UPDATE without its WHERE clause: every row is set
UpdateRows_NoWhere(d, z_pk, z_opt, offset, name) ==
    [k \in DOMAIN d |->
        [d[k] EXCEPT !.Z_OPT = z_opt,
                     !.ZTIMEZONEOFFSET = offset,
                     !.ZTIMEZONENAME = name]]

\* the UPDATE guarded by the counter read: WHERE Z_PK = z_pk AND Z_OPT = z_opt - 1
UpdateRows_Guarded(d, z_pk, z_opt, offset, name) ==
    [k \in DOMAIN d |->
        IF k = z_pk /\ d[k].Z_OPT = z_opt - 1
        THEN [d[k] EXCEPT !.Z_OPT = z_opt,
                          !.ZTIMEZONEOFFSET = offset,
                          !.ZTIMEZONENAME = name]
        ELSE d[k]]

\* the UPDATE skipped when the row already holds the requested timezone
UpdateRows_SkipSame(d, z_pk, z_opt, offset, name) ==
    [k \in DOMAIN d |->
        IF k = z_pk /\ ~(d[k].ZTIMEZONEOFFSET = offset /\ d[k].ZTIMEZONENAME = name)
        THEN [d[k] EXCEPT !.Z_OPT = z_opt,
                          !.ZTIMEZONEOFFSET = offset,
                          !.ZTIMEZONENAME = name]
        ELSE d[k]]

\* the UPDATE of _update_photo: SET Z_OPT, ZTIMEZONEOFFSET, ZTIMEZONENAME WHERE Z_PK = z_pk
UpdateRows(d, z_pk, z_opt, offset, name) ==
    [k \in DOMAIN d |->
        IF k = z_pk
        THEN [d[k] EXCEPT !.Z_OPT = z_opt,
                          !.ZTIMEZONEOFFSET = offset,
                          !.ZTIMEZONENAME = name]
        ELSE d[k]]

----------------------------------------------------------------------------
(* Initial states *)

Libraries(versions) ==
    { [path |-> TRUE, readable |-> TRUE, PLModelVersion |-> v] : v \in versions }
        \cup { [path |-> FALSE, readable |-> TRUE, PLModelVersion |-> 0],
               [path |-> TRUE, readable |-> FALSE, PLModelVersion |-> 0] }

\* the rows at the start: asset uuid-A (row 2) has the stored counter 4 at
\* -28800 America/Los_Angeles, asset uuid-B (row 1) a fresh counter at
\* -18000 America/Denver; the counters may also be the other way round
Databases ==
    { [k \in AttrKeys |->
          [ZASSET |-> ZAssetOf[k],
           Z_OPT |-> IF k = 2 THEN c ELSE CHOOSE o \in InitCounters : o # c,
           ZTIMEZONEOFFSET |-> IF k = 2 THEN -28800 ELSE -18000,
           ZTIMEZONENAME |-> IF k = 2 THEN "America/Los_Angeles" ELSE "America/Denver"]] :
        c \in InitCounters }

InitWith(libraries, databases, batches) ==
    /\ library \in libraries
    /\ db \in databases
    /\ session = "new"
    /\ photos_version = 0
    /\ ASSET_TABLE = "none"
    /\ \E t \in Timezones : tz_offset = t.offset /\ tz_name = t.name
    /\ photos \in batches
    /\ idx = 1
    /\ driver = "running"
    /\ pc = "idle"
    /\ attempt_number = 0
    /\ row = NoRow
    /\ exc = "none"
    /\ surfaced = "none"
    /\ delays = << >>
    /\ log = << >>
    /\ external = 0
    /\ result = NoResult
    /\ writes = 0
    /\ applied = [k \in AttrKeys |-> 0]
    /\ db0 = db

Init == InitWith(Libraries(SessionVersions), Databases, Batches)

----------------------------------------------------------------------------
(* PhotoTimeZoneUpdater.__init__ *)

\* __init__ swallowing its failures and guessing the newest generation
Construct_GuessOnFailure ==
    /\ session = "new"
    /\ session' = "ready"
    /\ photos_version' = IF library.path /\ library.readable
                         THEN get_photos_version(library.PLModelVersion)
                         ELSE 7
    /\ ASSET_TABLE' = DB_TABLE_NAMES(photos_version')
    /\ UNCHANGED <<library, db, tz_offset, tz_name, photos, idx, driver, pc, log, external, result>>
    /\ UNCHANGED callVars
    /\ UNCHANGED histVars

\* __init__: resolve the path, read the model version, fix ASSET_TABLE; any
\* failure raises out of the constructor and no session object exists
Construct ==
    /\ session = "new"
    /\ IF library.path /\ library.readable
       THEN /\ session' = "ready"
            /\ photos_version' = get_photos_version(library.PLModelVersion)
            /\ ASSET_TABLE' = DB_TABLE_NAMES(photos_version')
       ELSE /\ session' = "failed"
            /\ UNCHANGED <<photos_version, ASSET_TABLE>>
    /\ UNCHANGED <<library, db, tz_offset, tz_name, photos, idx, driver, pc, log, external, result>>
    /\ UNCHANGED callVars
    /\ UNCHANGED histVars

----------------------------------------------------------------------------
(* update_photo / _update_photo *)

\* the batch driver calls update_photo(photos[idx]); tenacity starts attempt 1
StartCall ==
    /\ session = "ready"
    /\ driver = "running"
    /\ pc = "idle"
    /\ idx <= Len(photos)
    /\ pc' = "attempt"
    /\ attempt_number' = 1
    /\ row' = NoRow
    /\ exc' = "none"
    /\ surfaced' = "none"
    /\ delays' = << >>
    /\ writes' = 0
    /\ result' = NoResult
    /\ UNCHANGED <<db, photos, idx, driver, log, external>>
    /\ UNCHANGED sessionVars
    /\ UNCHANGED histVars

\* a retry that keeps the fetched row and repeats only the update statement
Retry_UpdateOnly(e) ==
    /\ exc' = e
    /\ UNCHANGED <<row, writes>>
    /\ IF stop_after_attempt(attempt_number)
       THEN /\ pc' = "raised"
            /\ surfaced' = "RetryError"
            /\ UNCHANGED <<attempt_number, delays>>
       ELSE /\ pc' = IF row = NoRow THEN "attempt" ELSE "execute"
            /\ attempt_number' = attempt_number + 1
            /\ delays' = Append(delays, wait_exponential(attempt_number))
            /\ UNCHANGED surfaced

\* tenacity with no stop condition: after the last budgeted attempt it keeps
\* retrying at the capped delay
Retry_Forever(e) ==
    /\ exc' = e
    /\ row' = NoRow
    /\ UNCHANGED <<writes, surfaced>>
    /\ pc' = "attempt"
    /\ IF stop_after_attempt(attempt_number)
       THEN UNCHANGED <<attempt_number, delays>>
       ELSE /\ attempt_number' = attempt_number + 1
            /\ delays' = Append(delays, wait_exponential(attempt_number))

\* tenacity after an attempt raised e: stop (RetryError to the caller) or
\* sleep wait_exponential(attempt_number) and start the next attempt
Retry(e) ==
    /\ exc' = e
    /\ row' = NoRow
    /\ UNCHANGED writes
    /\ IF stop_after_attempt(attempt_number)
       THEN /\ pc' = "raised"
            /\ surfaced' = "RetryError"
            /\ UNCHANGED <<attempt_number, delays>>
       ELSE /\ pc' = "attempt"
            /\ attempt_number' = attempt_number + 1
            /\ delays' = Append(delays, wait_exponential(attempt_number))
            /\ UNCHANGED surfaced

\* query + next(results): the row of photos[idx] is fetched
QueryRow ==
    /\ pc = "attempt"
    /\ \E r \in SelectRows(db, photos[idx]) : row' = r
    /\ pc' = "execute"
    /\ UNCHANGED <<db, photos, idx, driver, log, external, result>>
    /\ UNCHANGED <<attempt_number, exc, surfaced, delays, writes>>
    /\ UNCHANGED sessionVars
    /\ UNCHANGED histVars

\* next(results) on an empty result raises StopIteration
QueryNoRow ==
    /\ pc = "attempt"
    /\ SelectRows(db, photos[idx]) = {}
    /\ Retry("StopIteration")
    /\ UNCHANGED <<db, photos, idx, driver, log, external, result>>
    /\ UNCHANGED sessionVars
    /\ UNCHANGED histVars

\* the query itself raises (database locked by the owning application)
QueryFails ==
    /\ pc = "attempt"
    /\ Retry("QueryError")
    /\ UNCHANGED <<db, photos, idx, driver, log, external, result>>
    /\ UNCHANGED sessionVars
    /\ UNCHANGED histVars

\* execute(sql_update) succeeds: z_opt = row.Z_OPT + 1 and the two timezone
\* fields are written to the row WHERE Z_PK = row.Z_PK
ExecuteUpdate ==
    /\ pc = "execute"
    /\ row.Z_OPT + 1 <= MaxCounter
    /\ db' = UpdateRows(db, row.Z_PK, row.Z_OPT + 1, tz_offset, tz_name)
    /\ pc' = "notify"
    /\ writes' = writes + 1
    /\ applied' = [applied EXCEPT ![row.Z_PK] = @ + 1]
    /\ UNCHANGED <<photos, idx, driver, log, external, result, db0>>
    /\ UNCHANGED <<attempt_number, row, exc, surfaced, delays>>
    /\ UNCHANGED sessionVars

\* execute(sql_update) raises: the statement changed nothing
ExecuteFails ==
    /\ pc = "execute"
    /\ Retry("ExecuteError")
    /\ UNCHANGED <<db, photos, idx, driver, log, external, result>>
    /\ UNCHANGED sessionVars
    /\ UNCHANGED histVars

\* update_photo returns to the batch driver: the state of the call is gone
Return ==
    /\ pc' = "idle"
    /\ idx' = idx + 1
    /\ attempt_number' = 0
    /\ row' = NoRow
    /\ exc' = "none"
    /\ surfaced' = "none"
    /\ delays' = << >>
    /\ writes' = 0

\* the message built from self.tz_name / self.tz_offset where the row's values belong
NotifyUpdated_NewAsOld ==
    /\ pc = "notify"
    /\ log' = Append(log, [kind |-> "updated", uuid |-> photos[idx],
                           from_name |-> tz_name,
                           from_offset |-> tz_offset,
                           to_name |-> tz_name, to_offset |-> tz_offset])
    /\ Return
    /\ UNCHANGED <<db, photos, driver, external, result>>
    /\ UNCHANGED sessionVars
    /\ UNCHANGED histVars

\* self.verbose("Updated timezone ...") returns; _update_photo and update_photo return
NotifyUpdated ==
    /\ pc = "notify"
    /\ log' = Append(log, [kind |-> "updated", uuid |-> photos[idx],
                           from_name |-> row.ZTIMEZONENAME,
                           from_offset |-> row.ZTIMEZONEOFFSET,
                           to_name |-> tz_name, to_offset |-> tz_offset])
    /\ Return
    /\ UNCHANGED <<db, photos, driver, external, result>>
    /\ UNCHANGED sessionVars
    /\ UNCHANGED histVars

\* building the message (photo.filename) or the sink raises after the write
NotifyFails ==
    /\ pc = "notify"
    /\ Retry("NotifyError")
    /\ UNCHANGED <<db, photos, idx, driver, log, external, result>>
    /\ UNCHANGED sessionVars
    /\ UNCHANGED histVars

\* update_photo without its except clause: the exception reaches the batch driver
CatchError_Propagate ==
    /\ pc = "raised"
    /\ driver' = "aborted"
    /\ pc' = "idle"
    /\ UNCHANGED <<db, photos, idx, log, external, result>>
    /\ UNCHANGED callVars
    /\ UNCHANGED sessionVars
    /\ UNCHANGED histVars

\* update_photo: except Exception as e: self.verbose("Error updating ...")
CatchError ==
    /\ pc = "raised"
    /\ log' = Append(log, [kind |-> "error", uuid |-> photos[idx],
                           from_name |-> surfaced, from_offset |-> 0,
                           to_name |-> exc, to_offset |-> 0])
    /\ Return
    /\ UNCHANGED <<db, photos, driver, external, result>>
    /\ UNCHANGED sessionVars
    /\ UNCHANGED histVars

----------------------------------------------------------------------------
(* PhotoTimeZone.get_timezone *)

\* get_timezone(photo) between two update_photo calls, on an object whose
\* constructor (the same code as the updater's) succeeded: the row is
\* fetched and (tz, tz_to_str(tz), tzname) returned, or next(results) raises
\* StopIteration to the caller
GetTimezone ==
    /\ session = "ready"
    /\ driver = "running"
    /\ pc = "idle"
    /\ \E uuid \in ReadUUIDs :
          IF SelectTimezone(db, uuid) = {}
          THEN result' = [kind |-> "StopIteration", uuid |-> uuid, tz |-> 0,
                          tz_str |-> << >>, tzname |-> "none"]
          ELSE \E r \in SelectTimezone(db, uuid) :
                  result' = [kind |-> "row", uuid |-> uuid,
                             tz |-> r.ZTIMEZONEOFFSET,
                             tz_str |-> tz_to_str(r.ZTIMEZONEOFFSET),
                             tzname |-> r.ZTIMEZONENAME]
    /\ UNCHANGED <<db, photos, idx, driver, pc, log, external>>
    /\ UNCHANGED callVars
    /\ UNCHANGED sessionVars
    /\ UNCHANGED histVars

----------------------------------------------------------------------------
(* The owning application *)

\* Photos saves a row: Core Data increments Z_OPT and may change the timezone
ExternalWrite ==
    /\ external < MaxExternal
    /\ external' = external + 1
    /\ \E k \in DOMAIN db, t \in Timezones :
          /\ db[k].Z_OPT < MaxCounter
          /\ db' = [db EXCEPT ![k] = [@ EXCEPT !.Z_OPT = @ + 1,
                                               !.ZTIMEZONEOFFSET = t.offset,
                                               !.ZTIMEZONENAME = t.name]]
    /\ UNCHANGED <<photos, idx, driver, pc, log, result>>
    /\ UNCHANGED callVars
    /\ UNCHANGED sessionVars
    /\ UNCHANGED histVars

----------------------------------------------------------------------------
(* Specifications *)

UpdaterStep ==
    \/ Construct
    \/ StartCall
    \/ QueryRow
    \/ QueryNoRow
    \/ QueryFails
    \/ ExecuteUpdate
    \/ ExecuteFails
    \/ NotifyUpdated
    \/ NotifyFails
    \/ CatchError

Next ==
    \/ UpdaterStep
    \/ GetTimezone
    \/ ExternalWrite

\* the updater next to a running owning application
Spec == Init /\ [][Next]_vars

\* the updater alone: the owning application makes no save
NextSeq ==
    \/ UpdaterStep
    \/ GetTimezone

SpecSeq == Init /\ [][NextSeq]_vars

\* the steps inside one update_photo call: the code is synchronous, so once
\* the call has started each statement of it returns or raises and the next
\* one runs; nothing else schedules these steps
CallStep ==
    \/ QueryRow
    \/ QueryNoRow
    \/ QueryFails
    \/ ExecuteUpdate
    \/ ExecuteFails
    \/ NotifyUpdated
    \/ NotifyFails
    \/ CatchError

\* the updater alone, every started call running on
SpecLive == Init /\ [][NextSeq]_vars /\ WF_vars(CallStep)

\* construction alone, over the model versions around every range bound
InitResolve ==
    InitWith(Libraries(ModelVersions), Databases, {<< >>})

SpecResolve == InitResolve /\ [][Construct]_vars

\* get_timezone alone, on a library whose asset uuid-A has any stored offset
\* of -MaxOffset .. MaxOffset seconds
CodecDatabases ==
    { [k \in AttrKeys |->
          [ZASSET |-> ZAssetOf[k],
           Z_OPT |-> 0,
           ZTIMEZONEOFFSET |-> IF k = 2 THEN x ELSE 0,
           ZTIMEZONENAME |-> IF k = 2 THEN "America/Los_Angeles" ELSE "UTC"]] :
        x \in -MaxOffset..MaxOffset }

InitCodec ==
    /\ InitWith(Libraries(SessionVersions), CodecDatabases, {<< >>})
    /\ library.path
    /\ library.readable
    /\ tz_name = "America/Denver"

NextCodec ==
    \/ Construct
    \/ GetTimezone

SpecCodec == InitCodec /\ [][NextCodec]_vars

----------------------------------------------------------------------------
(* Vocabulary of the properties *)

\* the uuid is the ZUUID of no row of the asset table
Unknown(uuid) == \A a \in DOMAIN AssetTable : AssetTable[a] # uuid

\* the key of the auxiliary-attributes row that belongs to the asset uuid
AttrKeyOf(uuid) ==
    CHOOSE k \in AttrKeys : AssetTable[ZAssetOf[k]] = uuid

\* a call of update_photo is in progress
InCall == pc \in {"attempt", "execute", "notify", "raised"}

\* this step is the UPDATE statement being applied
UpdateApplied == pc = "execute" /\ pc' = "notify"

\* this step is an attempt of _update_photo ending in an exception
AttemptFailed ==
    /\ pc \in {"attempt", "execute", "notify"}
    /\ \/ attempt_number' = attempt_number + 1
       \/ pc' = "raised"

----------------------------------------------------------------------------
(* C1 *)

----------------------------------------------------------------------------
(* C2 *)

\* C2: when the updater runs alone, after any attempt that fails the row that
\* the attempt read holds the counter, offset and name it held before the
\* attempt, and a step changes a row only by setting all three fields at once.
C2_FailedAttemptWritesNothing ==
    [][/\ AttemptFailed =>
            /\ db' = db
            /\ row # NoRow =>
                  /\ db'[row.Z_PK].Z_OPT = row.Z_OPT
                  /\ db'[row.Z_PK].ZTIMEZONEOFFSET = row.ZTIMEZONEOFFSET
                  /\ db'[row.Z_PK].ZTIMEZONENAME = row.ZTIMEZONENAME
       /\ \A k \in DOMAIN db :
            db'[k] # db[k] =>
                /\ db'[k].Z_OPT = row.Z_OPT + 1
                /\ db'[k].ZTIMEZONEOFFSET = tz_offset
                /\ db'[k].ZTIMEZONENAME = tz_name]_vars

----------------------------------------------------------------------------
(* C3 *)

\* C3: a call never makes more than 10 attempts; a failure of attempt 10 ends
\* the retry loop with an error raised to update_photo, and from there the
\* call only ends (no further attempt).
C3_AtMostTenAttempts ==
    [][/\ attempt_number' <= 10
       /\ (AttemptFailed /\ attempt_number = 10) =>
              /\ pc' = "raised"
              /\ surfaced' # "none"
              /\ attempt_number' = 10
       /\ (pc = "raised" /\ pc' # pc) => (pc' = "idle" /\ idx' = idx + 1)]_vars

C3_Witness ==
    /\ pc = "raised"
    /\ attempt_number = 10
    /\ surfaced = "RetryError"

----------------------------------------------------------------------------
(* C4 *)

\* C4 as stated: the error is surfaced on the 11th failure, after 10 retries.
C4_Original ==
    pc = "raised" => (attempt_number = 11 /\ Len(delays) = 10)

\* C4 (amended): a call makes at most 9 retries after its first attempt and
\* the exhaustion error is surfaced on the 10th failure, not earlier.
C4_ExhaustedOnTenthFailure ==
    /\ Len(delays) <= 9
    /\ InCall => Len(delays) = attempt_number - 1
    /\ pc = "raised" => (attempt_number = 10 /\ Len(delays) = 9
                            /\ surfaced = "RetryError")

\* every attempt failed on the write
C4_Witness ==
    /\ pc = "raised"
    /\ exc = "ExecuteError"
    /\ Len(delays) = 9

----------------------------------------------------------------------------
(* C5 *)

\* C5: within a call the delays are non-decreasing and none exceeds 5000 ms.
C5_DelaysMonotoneCapped ==
    \A i \in 1..Len(delays) :
        /\ delays[i] <= 5000
        /\ i > 1 => delays[i - 1] <= delays[i]

\* a full schedule: it grows at first and ends at the cap
C5_Witness ==
    /\ Len(delays) = 9
    /\ delays[1] < delays[2]
    /\ delays[9] = 5000

----------------------------------------------------------------------------
(* C6 *)

\* C6: the delay before the first retry is 100 ms.
C6_FirstDelay ==
    Len(delays) >= 1 => delays[1] = 100

----------------------------------------------------------------------------
(* C7 *)

----------------------------------------------------------------------------
(* C8 *)

\* C8: the UPDATE is applied whatever the row holds by then: also when the
\* row no longer holds the counter that was read, the statement can be
\* applied, it sets the row to (counter read + 1, requested offset, requested
\* name), and nothing is raised or reported in that step.
C8_UnguardedWrite ==
    [][/\ (pc = "execute" /\ row.Z_OPT < MaxCounter) => ENABLED ExecuteUpdate
       /\ UpdateApplied =>
            /\ db'[row.Z_PK].Z_OPT = row.Z_OPT + 1
            /\ db'[row.Z_PK].ZTIMEZONEOFFSET = tz_offset
            /\ db'[row.Z_PK].ZTIMEZONENAME = tz_name
            /\ exc' = exc
            /\ surfaced' = surfaced
            /\ log' = log]_vars

\* a lost update: in the first attempt of the first call the owning
\* application saved the row after it was read (its counter left the initial
\* values), and the UPDATE then set the counter to the counter read + 1
C8_Witness ==
    /\ pc = "notify"
    /\ idx = 1
    /\ attempt_number = 1
    /\ external = 1
    /\ row.Z_OPT \in InitCounters
    /\ db[row.Z_PK].Z_OPT = row.Z_OPT + 1
    /\ \A k \in DOMAIN db : k # row.Z_PK => db[k].Z_OPT \in InitCounters

----------------------------------------------------------------------------
(* C9 *)

\* C9 as stated: a lookup that matches no row fails with the not-found error
\* (StopIteration) and this error is what update_photo receives.
C9_Original ==
    (InCall /\ exc = "StopIteration") =>
        (pc = "raised" /\ surfaced = "StopIteration")

\* C9 (amended): a lookup that matches no row never yields a row and the call
\* writes no row; each such attempt fails, the failure is retried like any
\* other, and update_photo receives the retry exhaustion (RetryError) after
\* the 10th attempt, its last exception being the not-found error or a query
\* error.  A lookup that matches a row returns exactly the Z_OPT,
\* ZTIMEZONEOFFSET and ZTIMEZONENAME stored in the row of that asset.
C9_Lookup ==
    [][/\ (InCall' /\ Unknown(photos[idx])') =>
            /\ pc' \in {"attempt", "raised"}
            /\ row' = NoRow
            /\ exc' \in {"none", "StopIteration", "QueryError"}
            /\ pc' = "raised" => (surfaced' = "RetryError" /\ attempt_number' = 10)
       /\ (InCall /\ Unknown(photos[idx]) /\ external' = external) => db' = db
       /\ (pc = "attempt" /\ ~Unknown(photos[idx]) /\ exc' = "StopIteration") => FALSE
       /\ (pc = "attempt" /\ pc' = "execute") =>
            LET k == AttrKeyOf(photos[idx]) IN
            /\ row'.Z_PK = k
            /\ row'.Z_OPT = db[k].Z_OPT
            /\ row'.ZTIMEZONEOFFSET = db[k].ZTIMEZONEOFFSET
            /\ row'.ZTIMEZONENAME = db[k].ZTIMEZONENAME]_vars

\* an asset was looked up and updated, then an unknown uuid exhausted its attempts
C9_Witness ==
    /\ pc = "raised"
    /\ idx = 2
    /\ log[1].kind = "updated"
    /\ Unknown(photos[idx])
    /\ exc = "StopIteration"

----------------------------------------------------------------------------
(* C10 *)

\* C10: construction on a readable library never fails on the model version:
\* 13000 and 13999 give generation 5, 14000 and 14999 give 6, 15000 and 15999
\* give 7, every value inside a range gives that range's generation and every
\* value outside the three ranges gives 7.
C10_ClassificationTotal ==
    (session # "new" /\ library.path /\ library.readable) =>
        LET v == library.PLModelVersion IN
        /\ session = "ready"
        /\ v \in 13000..13999 => photos_version = 5
        /\ v \in 14000..14999 => photos_version = 6
        /\ v \in 15000..15999 => photos_version = 7
        /\ v \notin 13000..15999 => photos_version = 7

\* a version above every range was classified as the newest generation
C10_Witness ==
    /\ session = "ready"
    /\ library.PLModelVersion = 16000
    /\ photos_version = 7

----------------------------------------------------------------------------
(* C11 *)

----------------------------------------------------------------------------
(* C12 *)

RoundTripOffsets == {-50400, -18000, -1800, 0, 1800, 19800, 50400}

\* the value of a decimal digit character
DigitValue(c) == CHOOSE d \in 0..9 : DigitChars[d + 1] = c

\* decode: sign + HHMM back to signed seconds
decode(str) ==
    LET magnitude == (DigitValue(str[2]) * 10 + DigitValue(str[3])) * 3600
                        + (DigitValue(str[4]) * 10 + DigitValue(str[5])) * 60
    IN  IF str[1] = "-" THEN 0 - magnitude ELSE magnitude

\* C12: for every offset x of {-50400, -18000, -1800, 0, 1800, 19800, 50400},
\* decoding the string that tz_to_str gives for x gives x back.
C12_RoundTrip ==
    (result.kind = "row" /\ result.tz \in RoundTripOffsets) =>
        decode(result.tz_str) = result.tz

\* -1800 went through the round trip as -0030
C12_Witness ==
    /\ result.kind = "row"
    /\ result.tz = -1800
    /\ result.tz_str = <<"-", "0", "0", "3", "0">>
    /\ decode(result.tz_str) = -1800

----------------------------------------------------------------------------
(* C13 *)

\* C13: the sink receives a message only when a call ends, one per call and
\* about the asset of that call.  A success message is sent only by a call
\* that returns normally, after its UPDATE was applied (the row holds the
\* counter read + 1 and the requested values), and carries the name and
\* offset read from the row and the requested name and offset; a call that
\* ends in failure sends an error message and no success message.
C13_SuccessNotification ==
    [][log' # log =>
          LET msg == log'[Len(log')]
              k == AttrKeyOf(photos[idx])
          IN  /\ Len(log') = Len(log) + 1
              /\ SubSeq(log', 1, Len(log)) = log
              /\ idx' = idx + 1
              /\ pc' = "idle"
              /\ msg.uuid = photos[idx]
              /\ pc = "raised" => msg.kind = "error"
              /\ pc = "notify" => msg.kind = "updated"
              /\ msg.kind = "updated" =>
                    /\ pc = "notify"
                    /\ writes >= 1
                    /\ db[k].Z_OPT = row.Z_OPT + 1
                    /\ db[k].ZTIMEZONEOFFSET = tz_offset
                    /\ db[k].ZTIMEZONENAME = tz_name
                    /\ msg.from_name = row.ZTIMEZONENAME
                    /\ msg.from_offset = row.ZTIMEZONEOFFSET
                    /\ msg.to_name = tz_name
                    /\ msg.to_offset = tz_offset]_vars

\* the end-to-end case: one message from America/Los_Angeles -28800 to
\* America/Denver -18000, and the row holds the new values
C13_Witness ==
    /\ Len(log) = 1
    /\ log[1].kind = "updated"
    /\ log[1].uuid = "uuid-A"
    /\ log[1].from_name = "America/Los_Angeles"
    /\ log[1].from_offset = -28800
    /\ log[1].to_name = "America/Denver"
    /\ log[1].to_offset = -18000
    /\ db[AttrKeyOf("uuid-A")].ZTIMEZONENAME = "America/Denver"

----------------------------------------------------------------------------
(* C14 *)

\* this step is a get_timezone call giving its caller a value or an exception
ReadReturned == result' # result /\ result'.kind # "none"

\* C14: a get_timezone call leaves every row as it was, for any uuid; for
\* the uuid of an asset it returns the offset stored in the row of that
\* asset, tz_to_str of that offset (-0800 for -28800, -0500 for -18000) and
\* the stored name; for a uuid of no asset it returns nothing.
C14_GetTimezoneReadOnly ==
    [][ReadReturned =>
          /\ db' = db
          /\ Unknown(result'.uuid) => result'.kind = "StopIteration"
          /\ ~Unknown(result'.uuid) =>
                LET k == AttrKeyOf(result'.uuid) IN
                /\ result'.kind = "row"
                /\ result'.tz = db[k].ZTIMEZONEOFFSET
                /\ result'.tzname = db[k].ZTIMEZONENAME
                /\ result'.tz_str = tz_to_str(db[k].ZTIMEZONEOFFSET)
                /\ result'.tz = -28800 => result'.tz_str = <<"-", "0", "8", "0", "0">>
                /\ result'.tz = -18000 => result'.tz_str = <<"-", "0", "5", "0", "0">>]_vars

\* get_timezone of uuid-A after its update from America/Los_Angeles to
\* America/Denver: the new values are returned and the counter is still the
\* one the update left
C14_Witness ==
    /\ result.kind = "row"
    /\ result.uuid = "uuid-A"
    /\ result.tz = -18000
    /\ result.tzname = "America/Denver"
    /\ Len(log) = 1
    /\ log[1].from_name = "America/Los_Angeles"
    /\ external = 0
    /\ db[AttrKeyOf("uuid-A")].Z_OPT = db0[AttrKeyOf("uuid-A")].Z_OPT + 1

----------------------------------------------------------------------------
(* C15 *)

\* C15: when no database path is resolved or the metadata cannot be read,
\* construction ends in an error, there is no session with a schema mapping,
\* and the session neither looks up nor updates nor reads any asset row.
C15_ConstructionFatal ==
    ~(library.path /\ library.readable) =>
        /\ session \in {"new", "failed"}
        /\ photos_version = 0
        /\ ASSET_TABLE = "none"
        /\ pc = "idle"
        /\ idx = 1
        /\ attempt_number = 0
        /\ row = NoRow
        /\ result = NoResult
        /\ log = << >>
        /\ \A k \in AttrKeys : applied[k] = 0

\* construction failed on unreadable metadata while a batch of two was waiting
C15_Witness ==
    /\ session = "failed"
    /\ library.path
    /\ ~library.readable
    /\ Len(photos) = 2

----------------------------------------------------------------------------
(* C16 *)

\* a row is handed to the attempt by next(results)
RowRead == row = NoRow /\ row' # NoRow

\* tenacity starts another attempt of the same call
NextAttempt == attempt_number >= 1 /\ attempt_number' = attempt_number + 1

\* C16 as stated: within one update call the row is read once, in the first
\* attempt; retries repeat only the update statement.
C16_Original == [][RowRead => attempt_number = 1]_vars

\* C16: every attempt of an update call begins with the lookup and holds no
\* record of an earlier attempt; the record an attempt reads is the row as it
\* is at that moment; the write of the attempt uses the primary key of that
\* record and stores that record's counter + 1.
C16_LookupPerAttempt ==
    [][/\ NextAttempt => pc' = "attempt" /\ row' = NoRow
       /\ RowRead => pc = "attempt" /\ row' \in SelectRows(db, photos[idx])
       /\ UpdateApplied =>
             /\ row # NoRow
             /\ db'[row.Z_PK].Z_OPT = row.Z_OPT + 1
             /\ \A k \in AttrKeys \ {row.Z_PK} : db'[k] = db[k]]_vars

\* the second attempt has read the row again and written it again: the record
\* it holds carries the counter the first attempt stored
C16_Witness ==
    /\ pc = "notify"
    /\ attempt_number = 2
    /\ exc = "NotifyError"
    /\ external = 0
    /\ row.Z_OPT = db0[row.Z_PK].Z_OPT + 1
    /\ db[row.Z_PK].Z_OPT = db0[row.Z_PK].Z_OPT + 2

----------------------------------------------------------------------------
(* C17 *)

----------------------------------------------------------------------------
(* C18 *)

\* this step ends the update_photo call
CallEnds == InCall /\ pc' = "idle"

\* C18: every update_photo call eventually finishes, given that each single
\* database attempt returns or fails; the call ends only after a successful
\* write whose notification returned, or after the attempt budget is
\* exhausted and the error was reported, and never in between.
C18_CallTerminates ==
    /\ InCall ~> (pc = "idle")
    /\ [][CallEnds =>
            /\ driver' = "running"
            /\ idx' = idx + 1
            /\ Len(log') = Len(log) + 1
            /\ \/ /\ pc = "notify"
                  /\ writes >= 1
                  /\ log'[Len(log')].kind = "updated"
               \/ /\ pc = "raised"
                  /\ attempt_number = stop_max_attempt_number
                  /\ Len(delays) = stop_max_attempt_number - 1
                  /\ log'[Len(log')].kind = "error"]_vars

\* a call whose every update statement failed has run through its ten
\* attempts and returned to the batch driver
C18_Witness ==
    /\ pc = "idle"
    /\ idx = 2
    /\ Len(log) = 1
    /\ log[1].kind = "error"
    /\ log[1].uuid = "uuid-A"
    /\ log[1].to_name = "ExecuteError"
    /\ db = db0

----------------------------------------------------------------------------
(* C19 *)

\* C19: one update_photo call applies the UPDATE statement at most once,
\* whichever step of an attempt fails, so the row's counter grows by at most
\* 1 per call.
C19_AtMostOneWrite ==
    InCall => writes <= 1

----------------------------------------------------------------------------
(* C20 *)

\* the update_photo calls on the asset of row k that ended in success
Successes(k) ==
    { i \in 1..Len(log) :
        /\ log[i].kind = "updated"
        /\ ~Unknown(log[i].uuid)
        /\ AttrKeyOf(log[i].uuid) = k }

\* C20: with no external writer, every row's counter is >= 0, never
\* decreases, and between calls equals its initial value plus the number of
\* update_photo calls on that asset that ended in success.
C20_CounterCountsSuccesses ==
    /\ [](\A k \in AttrKeys : db[k].Z_OPT >= 0)
    /\ [][\A k \in AttrKeys : db'[k].Z_OPT >= db[k].Z_OPT]_vars
    /\ [](pc = "idle" =>
            \A k \in AttrKeys :
                db[k].Z_OPT = db0[k].Z_OPT + Cardinality(Successes(k)))

====
